---- MODULE Spec2Model ----
(***************************************************************************)
(* connpool: a capped, per-destination connection pool (connpool.go).      *)
(*                                                                         *)
(* Every caller goroutine is a process.  A step of the model is one        *)
(* atomic step of the Go code: a critical section under a mutex, one       *)
(* evaluation of a select, the return of the underlying dial or of the     *)
(* underlying close, the firing of a timer.                                *)
(***************************************************************************)
EXTENDS Integers, FiniteSets, Sequences, TLC

\* ---------------------------------------------------------------- bounds
NProcs == 3         \* caller goroutines
NDests == 2         \* distinct (network, addr) keys
MaxDials == 3       \* calls of Dialer.Dial in one behaviour
CapMax == 2         \* largest positive MaxConnPerHost a Dialer is built with
MaxCloses == 2      \* calls of Close that reach the raw close of one connection

\* ------------------------------------------------------------- constants
DefaultMaxConnsPerHost == 10

Procs == 1..NProcs
Dests == 1..NDests
ConnIds == 1..MaxDials
NoProc == 0
NoConn == 0
NoDest == 0

\* The values the field Dialer.MaxConnPerHost is configured with: it is a
\* plain int, so negative, zero (use the default) and positive.
MaxConnChoices == {-1, 0} \cup (1..CapMax)

VARIABLES
    maxConnPerHost, \* Dialer.MaxConnPerHost
    conns,          \* keys of the map Dialer.conns
    tokens,         \* pool.tokens of the pool of each key
    nConns,         \* wrapped connections created so far (ids 1..nConns)
    connPool,       \* conn.pool of each wrapped connection
    holder,         \* the caller a connection was returned to, until it calls Close
    rawCloses,      \* how often c.Conn.Close() has returned for the connection
    nDials,         \* calls of Dial so far
    pc,             \* where each goroutine is
    dest,           \* the key of the Dial a goroutine is running
    cur,            \* the receiver c of the Close a goroutine is running
    waited,         \* the running/last Dial reached line 87 (the wait loop)
    fired,          \* the deadline timer toch of the running/last Dial has fired
    firstT,         \* t := p.tokens (line 140) in the first maybeDial of the Dial
    lastT,          \* t := p.tokens (line 140) in the latest maybeDial of the Dial
    delta,          \* net change the running/last Dial made to pool.tokens
    nRaw,           \* calls of the underlying dial made by the running/last Dial
    blk,            \* connections held when the Dial was called, not closed since
    result,         \* what the last Dial of a goroutine returned
    closeRes,       \* what the last Close of a goroutine returned
    dLock,          \* the goroutine inside d.Lock()/d.Unlock() of the Dialer
    pLock           \* the goroutine inside p.Lock()/p.Unlock() of each pool

vars == <<maxConnPerHost, conns, tokens, nConns, connPool, holder, rawCloses,
          nDials, pc, dest, cur, waited, fired, firstT, lastT, delta, nRaw,
          blk, result, closeRes, dLock, pLock>>

connVars == <<nConns, connPool, holder, rawCloses>>
dialHist == <<waited, fired, firstT, lastT, delta, nRaw>>
closeHist == <<cur, closeRes>>
lockVars == <<dLock, pLock>>

DialPcs == {"maybeDial", "rawDial", "dialErr", "loop", "select"}
ClosePcs == {"closeDefault", "rawClose"}
LockPcs == {"poolLock", "poolBody", "getToken", "putToken", "closePut"}

NoResult == [kind |-> "none", conn |-> NoConn]
NoClose == [kind |-> "none", conn |-> NoConn, to |-> NoProc]

\* ------------------------------------------------------- pure functions
\* Dialer.pool, lines 55-58: the cap a new pool starts with.
MaxOf(m) == IF m = 0 THEN DefaultMaxConnsPerHost ELSE m

\* Mutant: a getToken that decrements without testing t > 0.
getTokenNew_Unconditional(t) == t - 1

\* Mutant: a getToken that forgets to decrement.
getTokenNew_NoDecrement(t) == t

\* pool.getToken, lines 140-143: the new value of p.tokens.
getTokenNew(t) == IF t > 0 THEN t - 1 ELSE t

\* Mutant: a getToken that returns the counter after the decrement, not before.
getTokenRet_AfterDecrement(t) == IF t > 0 THEN t - 1 ELSE t

\* pool.getToken, lines 140 and 144: the value returned, given p.tokens.
getTokenRet(t) == t

\* Mutant: a putToken that does not increment.
putTokenNew_NoIncrement(t) == t

\* Mutant: a putToken that checks its upper bound.
putTokenNew_Capped(t) == IF t >= MaxOf(maxConnPerHost) THEN t ELSE t + 1

\* pool.putToken: the new value of p.tokens.
putTokenNew(t) == t + 1

\* Mutant: a maybeDial that tests getToken() >= 0.
GotToken_NonNegative(t) == t >= 0

\* pool.maybeDial, line 119: the test that decides to call the dial.
GotToken(t) == t # 0

\* Mutant: a connCh nobody is ever found receiving on, Close never hands off.
Receivers_None(d) == {}

\* Mutant: one handoff channel for the whole Dialer: every parked Dial can
\* receive, whatever its destination.
Receivers_AnyDest(d) == {q \in Procs : pc[q] = "select"}

\* The goroutines parked in the select of Dial on the pool of key d: the
\* receivers a send on pool.connCh can rendezvous with.
Receivers(d) == {q \in Procs : pc[q] = "select" /\ dest[q] = d}

\* The Dial calls of key d that are in the wait loop (line 87 on), parked or not.
Waiters(d) == {q \in Procs : pc[q] \in DialPcs /\ dest[q] = d /\ waited[q]}

\* Connections of key d returned by Dial to a caller that has not called Close.
Held(d) == {c \in 1..nConns : connPool[c] = d /\ holder[c] # NoProc}

\* Raw connections of key d that are open: dialed, c.Conn.Close not yet returned.
RawOpen(d) == {c \in 1..nConns : connPool[c] = d /\ rawCloses[c] = 0}

\* ------------------------------------------------------------------ Init
Init ==
    /\ maxConnPerHost \in MaxConnChoices
    /\ conns = {}
    /\ tokens = [d \in Dests |-> 0]
    /\ nConns = 0
    /\ connPool = [c \in ConnIds |-> NoDest]
    /\ holder = [c \in ConnIds |-> NoProc]
    /\ rawCloses = [c \in ConnIds |-> 0]
    /\ nDials = 0
    /\ pc = [p \in Procs |-> "idle"]
    /\ dest = [p \in Procs |-> NoDest]
    /\ cur = [p \in Procs |-> NoConn]
    /\ waited = [p \in Procs |-> FALSE]
    /\ fired = [p \in Procs |-> FALSE]
    /\ firstT = [p \in Procs |-> 0]
    /\ lastT = [p \in Procs |-> 0]
    /\ delta = [p \in Procs |-> 0]
    /\ nRaw = [p \in Procs |-> 0]
    /\ blk = [p \in Procs |-> {}]
    /\ result = [p \in Procs |-> NoResult]
    /\ closeRes = [p \in Procs |-> NoClose]
    /\ dLock = NoProc
    /\ pLock = [d \in Dests |-> NoProc]

\* ------------------------------------------------------------ Dialer.Dial
\* Mutant: a pool() that stores a new pool for the key at every call.
DialPool_Recreates(p, d) ==
    /\ pc[p] = "idle"
    /\ nDials < MaxDials
    /\ nDials' = nDials + 1
    /\ conns' = conns \cup {d}
    /\ tokens' = [tokens EXCEPT ![d] = MaxOf(maxConnPerHost)]
    /\ pc' = [pc EXCEPT ![p] = "maybeDial"]
    /\ dest' = [dest EXCEPT ![p] = d]
    /\ waited' = [waited EXCEPT ![p] = FALSE]
    /\ fired' = [fired EXCEPT ![p] = FALSE]
    /\ firstT' = [firstT EXCEPT ![p] = 0]
    /\ lastT' = [lastT EXCEPT ![p] = 0]
    /\ delta' = [delta EXCEPT ![p] = 0]
    /\ nRaw' = [nRaw EXCEPT ![p] = 0]
    /\ blk' = [blk EXCEPT ![p] = Held(d)]
    /\ result' = [result EXCEPT ![p] = NoResult]
    /\ UNCHANGED <<maxConnPerHost, lockVars, connVars, closeHist>>

\* Dial is called and runs d.pool(network, addr) under the Dialer's lock:
\* look the pool up, create it with tokens = max when the key is new.
DialPool(p, d) ==
    /\ pc[p] = "idle"
    /\ nDials < MaxDials
    /\ nDials' = nDials + 1
    /\ conns' = conns \cup {d}
    /\ tokens' = IF d \in conns THEN tokens
                 ELSE [tokens EXCEPT ![d] = MaxOf(maxConnPerHost)]
    /\ pc' = [pc EXCEPT ![p] = "maybeDial"]
    /\ dest' = [dest EXCEPT ![p] = d]
    /\ waited' = [waited EXCEPT ![p] = FALSE]
    /\ fired' = [fired EXCEPT ![p] = FALSE]
    /\ firstT' = [firstT EXCEPT ![p] = 0]
    /\ lastT' = [lastT EXCEPT ![p] = 0]
    /\ delta' = [delta EXCEPT ![p] = 0]
    /\ nRaw' = [nRaw EXCEPT ![p] = 0]
    /\ blk' = [blk EXCEPT ![p] = Held(d)]
    /\ result' = [result EXCEPT ![p] = NoResult]
    /\ UNCHANGED <<maxConnPerHost, lockVars, connVars, closeHist>>

\* pool.maybeDial, line 119: p.getToken() under the pool's lock and the test
\* of its result.  Without a token the first maybeDial falls through to line
\* 87 (toch is created, the loop is entered) and a retry goes round the loop.
MaybeDialGetToken(p) ==
    /\ pc[p] = "maybeDial"
    /\ LET d == dest[p]
           t == getTokenRet(tokens[d])
       IN /\ tokens' = [tokens EXCEPT ![d] = getTokenNew(tokens[d])]
          /\ delta' = [delta EXCEPT ![p] = @ + getTokenNew(tokens[d]) - tokens[d]]
          /\ lastT' = [lastT EXCEPT ![p] = tokens[d]]
          /\ firstT' = IF waited[p] THEN firstT
                       ELSE [firstT EXCEPT ![p] = tokens[d]]
          /\ IF GotToken(t)
             THEN /\ pc' = [pc EXCEPT ![p] = "rawDial"]
                  /\ nRaw' = [nRaw EXCEPT ![p] = @ + 1]
                  /\ UNCHANGED waited
             ELSE /\ pc' = [pc EXCEPT ![p] = "loop"]
                  /\ waited' = [waited EXCEPT ![p] = TRUE]
                  /\ UNCHANGED nRaw
    /\ UNCHANGED <<maxConnPerHost, lockVars, conns, connVars, nDials, dest, fired, blk,
                   result, closeHist>>

\* The underlying dial d(network, addr) returns a raw connection: maybeDial
\* wraps it (lines 126-130) and Dial returns it (lines 83-85 or 99-101).
RawDialOk(p) ==
    /\ pc[p] = "rawDial"
    /\ LET c == nConns + 1
       IN /\ nConns' = c
          /\ connPool' = [connPool EXCEPT ![c] = dest[p]]
          /\ holder' = [holder EXCEPT ![c] = p]
          /\ result' = [result EXCEPT ![p] = [kind |-> "new", conn |-> c]]
    /\ pc' = [pc EXCEPT ![p] = "idle"]
    /\ UNCHANGED <<maxConnPerHost, lockVars, conns, tokens, rawCloses, nDials, dest,
                   dialHist, blk, closeHist>>

\* The underlying dial returns an error (line 121).
RawDialErr(p) ==
    /\ pc[p] = "rawDial"
    /\ pc' = [pc EXCEPT ![p] = "dialErr"]
    /\ UNCHANGED <<maxConnPerHost, lockVars, conns, tokens, connVars, nDials, dest,
                   dialHist, blk, result, closeHist>>

\* Mutant: a maybeDial that returns the dial error without putToken.
MaybeDialPutToken_Leak(p) ==
    /\ pc[p] = "dialErr"
    /\ result' = [result EXCEPT ![p] = [kind |-> "err", conn |-> NoConn]]
    /\ pc' = [pc EXCEPT ![p] = "idle"]
    /\ UNCHANGED <<maxConnPerHost, lockVars, conns, tokens, connVars, nDials, dest,
                   dialHist, blk, closeHist>>

\* maybeDial, lines 122-123: p.putToken() under the pool's lock, then the
\* error is returned by maybeDial and by Dial (lines 79-81 or 95-97).
MaybeDialPutToken(p) ==
    /\ pc[p] = "dialErr"
    /\ LET d == dest[p]
       IN /\ tokens' = [tokens EXCEPT ![d] = putTokenNew(tokens[d])]
          /\ delta' = [delta EXCEPT ![p] = @ + putTokenNew(tokens[d]) - tokens[d]]
    /\ result' = [result EXCEPT ![p] = [kind |-> "err", conn |-> NoConn]]
    /\ pc' = [pc EXCEPT ![p] = "idle"]
    /\ UNCHANGED <<maxConnPerHost, lockVars, conns, connVars, nDials, dest, waited,
                   fired, firstT, lastT, nRaw, blk, closeHist>>

\* Lines 88-105, the select is evaluated and no case is ready: the goroutine
\* parks in it.  (No sender ever waits on connCh, since Close sends without
\* blocking, so the receive is never ready when the select is entered.)
SelectEnter(p) ==
    /\ pc[p] = "loop"
    /\ ~fired[p]
    /\ pc' = [pc EXCEPT ![p] = "select"]
    /\ UNCHANGED <<maxConnPerHost, lockVars, conns, tokens, connVars, nDials, dest,
                   dialHist, blk, result, closeHist>>

\* Mutant: a select that does not look at toch when entered, the goroutine parks.
SelectTimeout_Parks(p) ==
    /\ pc[p] = "loop"
    /\ fired[p]
    /\ pc' = [pc EXCEPT ![p] = "select"]
    /\ UNCHANGED <<maxConnPerHost, lockVars, conns, tokens, connVars, nDials, dest,
                   dialHist, blk, result, closeHist>>

\* Lines 103-104: toch has fired when the select is entered and its case is
\* chosen: Dial returns ErrTimeout.
SelectTimeout(p) ==
    /\ pc[p] = "loop"
    /\ fired[p]
    /\ pc' = [pc EXCEPT ![p] = "idle"]
    /\ result' = [result EXCEPT ![p] = [kind |-> "timeout", conn |-> NoConn]]
    /\ UNCHANGED <<maxConnPerHost, lockVars, conns, tokens, connVars, nDials, dest,
                   dialHist, blk, closeHist>>

\* Line 93: the polling timer has already elapsed when the select is entered
\* (the goroutine was descheduled for 10ms) and its case is chosen, also when
\* toch is ready too: a select chooses among its ready cases at random.
SelectPoll(p) ==
    /\ pc[p] = "loop"
    /\ pc' = [pc EXCEPT ![p] = "maybeDial"]
    /\ UNCHANGED <<maxConnPerHost, lockVars, conns, tokens, connVars, nDials, dest,
                   dialHist, blk, result, closeHist>>

\* Mutant: a loop without the polling case: the woken goroutine goes back to
\* its select instead of retrying maybeDial.
PollTimer_NoRetry(p) ==
    /\ pc[p] = "select"
    /\ pc' = [pc EXCEPT ![p] = "loop"]
    /\ UNCHANGED <<maxConnPerHost, lockVars, conns, tokens, connVars, nDials, dest,
                   dialHist, blk, result, closeHist>>

\* Line 93: the 10ms polling timer wakes the parked goroutine, which goes on
\* to retry maybeDial.
PollTimer(p) ==
    /\ pc[p] = "select"
    /\ pc' = [pc EXCEPT ![p] = "maybeDial"]
    /\ UNCHANGED <<maxConnPerHost, lockVars, conns, tokens, connVars, nDials, dest,
                   dialHist, blk, result, closeHist>>

\* Line 103: toch fires while the goroutine is parked in the select; it wakes
\* and Dial returns ErrTimeout.
DeadlineWake(p) ==
    /\ pc[p] = "select"
    /\ ~fired[p]
    /\ fired' = [fired EXCEPT ![p] = TRUE]
    /\ pc' = [pc EXCEPT ![p] = "idle"]
    /\ result' = [result EXCEPT ![p] = [kind |-> "timeout", conn |-> NoConn]]
    /\ UNCHANGED <<maxConnPerHost, lockVars, conns, tokens, connVars, nDials, dest,
                   waited, firstT, lastT, delta, nRaw, blk, closeHist>>

\* toch (line 87) fires while the goroutine is not parked: it is about to
\* evaluate the select or is inside a polling retry of maybeDial.
DeadlineFire(p) ==
    /\ pc[p] \in DialPcs \ {"select"}
    /\ waited[p]
    /\ ~fired[p]
    /\ fired' = [fired EXCEPT ![p] = TRUE]
    /\ UNCHANGED <<maxConnPerHost, lockVars, conns, tokens, connVars, nDials, pc, dest,
                   waited, firstT, lastT, delta, nRaw, blk, result, closeHist>>

\* -------------------------------------------------------------- conn.Close
\* The caller that holds c calls c.Close(): every Dial that was blocked by c
\* being held sees it released.
Released(c) == [q \in Procs |-> IF pc[q] \in DialPcs THEN blk[q] \ {c} ELSE blk[q]]

\* Mutant: a handoff that wakes every Dial parked on the pool; one receives
\* c and the others go round their loop.
CloseSend_WakesAll(p, c, q) ==
    /\ pc[p] = "idle"
    /\ c \in 1..nConns /\ holder[c] = p
    /\ q \in Receivers(connPool[c])
    /\ holder' = [holder EXCEPT ![c] = q]
    /\ pc' = [r \in Procs |-> IF r = q THEN "idle"
                              ELSE IF r \in Receivers(connPool[c]) THEN "loop"
                              ELSE pc[r]]
    /\ result' = [result EXCEPT ![q] = [kind |-> "reused", conn |-> c]]
    /\ cur' = [cur EXCEPT ![p] = c]
    /\ closeRes' = [closeRes EXCEPT ![p] = [kind |-> "handoff", conn |-> c, to |-> q]]
    /\ blk' = Released(c)
    /\ UNCHANGED <<maxConnPerHost, lockVars, conns, tokens, nConns, connPool, rawCloses,
                   nDials, dest, dialHist>>

\* Lines 162-164: a goroutine q is parked in the select of Dial on c.pool, so
\* the send on connCh succeeds: q receives c and its Dial returns it (lines
\* 90-91); Close returns nil.
CloseSend(p, c, q) ==
    /\ pc[p] = "idle"
    /\ c \in 1..nConns /\ holder[c] = p
    /\ q \in Receivers(connPool[c])
    /\ holder' = [holder EXCEPT ![c] = q]
    /\ pc' = [pc EXCEPT ![q] = "idle"]
    /\ result' = [result EXCEPT ![q] = [kind |-> "reused", conn |-> c]]
    /\ cur' = [cur EXCEPT ![p] = c]
    /\ closeRes' = [closeRes EXCEPT ![p] = [kind |-> "handoff", conn |-> c, to |-> q]]
    /\ blk' = Released(c)
    /\ UNCHANGED <<maxConnPerHost, lockVars, conns, tokens, nConns, connPool, rawCloses,
                   nDials, dest, dialHist>>

\* Lines 162, 165: nobody is parked on connCh, the select takes its default.
CloseDefault(p, c) ==
    /\ pc[p] = "idle"
    /\ c \in 1..nConns /\ holder[c] = p
    /\ Receivers(connPool[c]) = {}
    /\ holder' = [holder EXCEPT ![c] = NoProc]
    /\ pc' = [pc EXCEPT ![p] = "closeDefault"]
    /\ cur' = [cur EXCEPT ![p] = c]
    /\ closeRes' = [closeRes EXCEPT ![p] = NoClose]
    /\ blk' = Released(c)
    /\ UNCHANGED <<maxConnPerHost, lockVars, conns, tokens, nConns, connPool, rawCloses,
                   nDials, dest, dialHist, result>>

\* Mutant: a Close that closes the raw connection without releasing its token.
ClosePutToken_NoRelease(p) ==
    /\ pc[p] = "closeDefault"
    /\ pc' = [pc EXCEPT ![p] = "rawClose"]
    /\ UNCHANGED <<maxConnPerHost, lockVars, conns, tokens, connVars, nDials, dest,
                   dialHist, blk, result, closeHist>>

\* Line 166: c.pool.putToken() under the pool's lock.
ClosePutToken(p) ==
    /\ pc[p] = "closeDefault"
    /\ LET d == connPool[cur[p]]
       IN tokens' = [tokens EXCEPT ![d] = putTokenNew(tokens[d])]
    /\ pc' = [pc EXCEPT ![p] = "rawClose"]
    /\ UNCHANGED <<maxConnPerHost, lockVars, conns, connVars, nDials, dest, dialHist,
                   blk, result, closeHist>>

\* Line 167: c.Conn.Close() returns, with nil or with an error, and Close
\* returns what it returned.
CloseRaw(p, r) ==
    /\ pc[p] = "rawClose"
    /\ rawCloses' = [rawCloses EXCEPT ![cur[p]] = @ + 1]
    /\ closeRes' = [closeRes EXCEPT ![p] = [kind |-> r, conn |-> cur[p], to |-> NoProc]]
    /\ pc' = [pc EXCEPT ![p] = "idle"]
    /\ UNCHANGED <<maxConnPerHost, lockVars, conns, tokens, nConns, connPool, holder,
                   nDials, dest, dialHist, blk, result, cur>>

\* ------------------------------------------------------------------ Next
Next ==
    \/ \E p \in Procs, d \in Dests : DialPool(p, d)
    \/ \E p \in Procs : MaybeDialGetToken(p)
    \/ \E p \in Procs : RawDialOk(p)
    \/ \E p \in Procs : RawDialErr(p)
    \/ \E p \in Procs : MaybeDialPutToken(p)
    \/ \E p \in Procs : SelectEnter(p)
    \/ \E p \in Procs : SelectTimeout(p)
    \/ \E p \in Procs : SelectPoll(p)
    \/ \E p \in Procs : PollTimer(p)
    \/ \E p \in Procs : DeadlineWake(p)
    \/ \E p \in Procs : DeadlineFire(p)
    \/ \E p \in Procs, c \in ConnIds, q \in Procs : CloseSend(p, c, q)
    \/ \E p \in Procs, c \in ConnIds : CloseDefault(p, c)
    \/ \E p \in Procs : ClosePutToken(p)
    \/ \E p \in Procs, r \in {"nil", "err"} : CloseRaw(p, r)

Spec == Init /\ [][Next]_vars

TypeOK ==
    /\ maxConnPerHost \in MaxConnChoices
    /\ conns \subseteq Dests
    /\ tokens \in [Dests -> Int]
    /\ nConns \in 0..MaxDials
    /\ pc \in [Procs -> {"idle"} \cup DialPcs \cup ClosePcs \cup LockPcs]
    /\ dLock \in Procs \cup {NoProc}
    /\ pLock \in [Dests -> Procs \cup {NoProc}]

\* ================================================================ claims
\* Lemma: with a positive maximum, the connections of one key that callers
\* hold never exceed it.
HeldWithinPositiveMax ==
    maxConnPerHost > 0 =>
        \A d \in Dests : Cardinality(Held(d)) <= maxConnPerHost

\* C1: for every destination, the number of connections held by callers
\* (returned by Dial, fresh or handed off, and not yet closed) never exceeds
\* the configured maximum: MaxConnPerHost, or 10 when it is 0.  (Stated where
\* some connection is held, so that no state without connections refutes it.)
C1_HeldWithinMax ==
    \A d \in Dests :
        Held(d) # {} => Cardinality(Held(d)) <= MaxOf(maxConnPerHost)

\* C2: the raw connections to one destination that the underlying dial has
\* opened and whose physical close has not completed are at most the configured
\* maximum, also in the window of Close between putToken and c.Conn.Close.
\* (Stated for MaxConnPerHost >= 0, where the token counter does cap the
\* callers' connections.)
C2_RawOpenWithinMax ==
    maxConnPerHost >= 0 =>
        \A d \in Dests : Cardinality(RawOpen(d)) <= MaxOf(maxConnPerHost)

\* C3: with a maximum of 1, a Dial called while a caller holds a connection
\* to the same destination does not return before that connection's
\* holder has called Close, unless it returns ErrTimeout after its own deadline
\* has fired; and no two connections to one destination are held at once.
C3_SecondDialWaits ==
    maxConnPerHost = 1 =>
        /\ \A q \in Procs :
              (result[q].kind # "none" /\ blk[q] # {}) =>
                  (result[q].kind = "timeout" /\ waited[q] /\ fired[q])
        /\ \A q \in Procs :
              (pc[q] \in {"rawDial", "dialErr"}) => blk[q] = {}
        /\ \A d \in Dests : Cardinality(Held(d)) <= 1

\* C3's case: with a maximum of 1, B's Dial has returned (by timeout) while the
\* connection A held when B called is still held.
C3_Witness ==
    /\ maxConnPerHost = 1
    /\ \E q \in Procs, c \in ConnIds :
          /\ result[q].kind = "timeout"
          /\ c \in blk[q]
          /\ holder[c] \notin {NoProc, q}
\* The Dial calls of key d that are parked in the select of the wait loop,
\* read off the goroutines' positions.
Parked(d) == {q \in Procs : pc[q] = "select" /\ dest[q] = d}

\* The step in which caller p calls Close on the connection c it holds.
CloseCalled(p, c) ==
    /\ c \in 1..nConns
    /\ pc[p] = "idle"
    /\ holder[c] = p
    /\ holder'[c] # p

\* The step of CloseCalled(p, c) delivers c to the Dial of q: q's Dial returns
\* exactly c, the raw connection is not closed and no token count changes.
DeliveredTo(c, q) ==
    /\ pc'[q] = "idle"
    /\ result'[q] = [kind |-> "reused", conn |-> c]
    /\ holder'[c] = q
    /\ rawCloses' = rawCloses
    /\ tokens' = tokens

\* C4 as claimed: whenever Close is called on a connection while some Dial for
\* the same destination is in its wait loop, at any point of the loop, that
\* connection is delivered to a waiter as its Dial result, the raw connection is
\* not physically closed and the token count is not changed.
C4_HandoffToAnyWaiter ==
    [][\A p \in Procs, c \in ConnIds :
          (CloseCalled(p, c) /\ Waiters(connPool[c]) # {}) =>
              \E q \in Waiters(connPool[c]) : DeliveredTo(c, q)]_vars

\* C4 as amended: whenever Close is called on a connection while some Dial for
\* the same destination is parked in the select of its wait loop, that
\* connection is delivered to one of the parked Dials as its result, the raw
\* connection is not physically closed and the token count is not changed; when
\* every waiting Dial is inside a polling retry the offer is dropped and Close
\* takes its default branch.
C4_HandoffToParkedWaiter ==
    [][\A p \in Procs, c \in ConnIds :
          CloseCalled(p, c) =>
              IF Parked(connPool[c]) # {}
              THEN \E q \in Parked(connPool[c]) : DeliveredTo(c, q)
              ELSE /\ pc'[p] = "closeDefault"
                   /\ holder'[c] = NoProc
                   /\ \A q \in Procs \ {p} : pc'[q] = pc[q] /\ result'[q] = result[q]]_vars

\* C4's case: a Close has handed its connection to a Dial that was waiting,
\* which holds it now as the result of that Dial.
C4_Witness ==
    \E p \in Procs, q \in Procs, c \in ConnIds :
        /\ closeRes[p] = [kind |-> "handoff", conn |-> c, to |-> q]
        /\ result[q] = [kind |-> "reused", conn |-> c]
        /\ holder[c] = q
        /\ waited[q]
        /\ rawCloses[c] = 0

\* C5: when Close is called and no Dial is ready to receive on the handoff
\* channel, Close does not block: it takes the default branch, its putToken
\* raises the pool's token count by exactly one and no other, the raw connection
\* is then physically closed, once, and Close returns what the raw close
\* returned; the token is released before and whatever the raw close returns.
C5_CloseWithoutReceiver ==
    /\ [][\A p \in Procs :
            /\ \A c \in ConnIds :
                  (CloseCalled(p, c) /\ Parked(connPool[c]) = {}) =>
                      /\ pc'[p] = "closeDefault"
                      /\ cur'[p] = c
                      /\ tokens' = tokens
                      /\ rawCloses' = rawCloses
            /\ (pc[p] = "closeDefault" /\ pc'[p] # "closeDefault") =>
                  /\ pc'[p] = "rawClose"
                  /\ tokens' = [tokens EXCEPT ![connPool[cur[p]]] = @ + 1]
                  /\ rawCloses' = rawCloses
            /\ (pc[p] = "rawClose" /\ pc'[p] # "rawClose") =>
                  /\ pc'[p] = "idle"
                  /\ tokens' = tokens
                  /\ rawCloses' = [rawCloses EXCEPT ![cur[p]] = 1]
                  /\ closeRes'[p].kind \in {"nil", "err"}
                  /\ closeRes'[p].conn = cur[p]]_vars
    /\ [](\A p \in Procs :
            /\ pc[p] = "closeDefault" => ENABLED ClosePutToken(p)
            /\ pc[p] = "rawClose" =>
                  ENABLED CloseRaw(p, "nil") /\ ENABLED CloseRaw(p, "err"))
    /\ [](\A c \in ConnIds : rawCloses[c] <= 1)

\* C5's case: a Close that found no receiver has released its token and has
\* returned the error of the raw close.
C5_Witness ==
    \E p \in Procs :
        /\ pc[p] = "idle"
        /\ closeRes[p].kind = "err"
        /\ rawCloses[closeRes[p].conn] = 1
\* C6: if the pool has tokens > 0 when a Dial makes its first acquisition, the
\* Dial never enters the wait loop (no deadline timer, no poll, no receive on
\* the handoff channel); it calls the underlying dial once and, when that
\* succeeds, returns a new wrapped connection of that pool, having lowered the
\* token count by exactly one.
C6_DialWithTokenIsImmediate ==
    \A p \in Procs :
        firstT[p] > 0 =>
            /\ ~waited[p] /\ ~fired[p]
            /\ pc[p] \notin {"loop", "select"}
            /\ nRaw[p] = 1
            /\ result[p].kind \in {"none", "new", "err"}
            /\ pc[p] = "rawDial" => delta[p] = -1
            /\ result[p].kind = "new" =>
                  /\ delta[p] = -1
                  /\ result[p].conn \in 1..nConns
                  /\ connPool[result[p].conn] = dest[p]

\* C6's case: a Dial that found tokens > 0 has returned a new connection from
\* its first maybeDial.
C6_Witness ==
    \E p \in Procs :
        /\ firstT[p] > 0
        /\ result[p].kind = "new"
        /\ holder[result[p].conn] = p
        /\ ~waited[p]

\* C7: when the underlying dial fails after a token was acquired, on the first
\* attempt or on a polling retry, Dial returns the dial error without calling
\* the dial again and without a connection, and the token is put back: the
\* failed Dial's net effect on the token count is zero.
C7_FailedDialLeavesNoToken ==
    \A p \in Procs :
        /\ (pc[p] = "dialErr" /\ lastT[p] > 0) => (delta[p] = -1 /\ nRaw[p] = 1)
        /\ result[p].kind = "err" =>
              /\ pc[p] \notin DialPcs
              /\ nRaw[p] = 1
              /\ result[p].conn = NoConn
              /\ lastT[p] > 0 => delta[p] = 0

\* C7's case: a Dial whose polling retry took a token has returned the error
\* of the underlying dial.
C7_Witness ==
    \E p \in Procs :
        /\ result[p].kind = "err"
        /\ waited[p]
        /\ lastT[p] > 0
        /\ pc[p] = "idle"

\* ErrTimeout.Temporary and ErrTimeout.Timeout.
ErrTimeoutTemporary == TRUE
ErrTimeoutTimeout == TRUE

\* C9: Dial returns ErrTimeout (temporary and timeout) only from inside the
\* wait loop after its deadline timer has fired, only when the call has
\* acquired neither a token nor a handed-off connection, never together with a
\* connection; the call that returns it holds no token.
C9_TimeoutOnlyAfterDeadline ==
    /\ ErrTimeoutTemporary /\ ErrTimeoutTimeout
    /\ \A p \in Procs :
          result[p].kind = "timeout" =>
              /\ waited[p] /\ fired[p]
              /\ pc[p] \notin DialPcs
              /\ delta[p] = 0
              /\ nRaw[p] = 0
              /\ result[p].conn = NoConn
              /\ lastT[p] = 0

\* C9's case: a Dial has returned ErrTimeout after at least one other caller
\* took and kept a connection of the pool.
C9_Witness ==
    \E p \in Procs :
        /\ result[p].kind = "timeout"
        /\ pc[p] = "idle"
        /\ tokens[dest[p]] = 0
        /\ Held(dest[p]) # {}
\* ------------------------------------------------- sequential callers (C8)
\* Calls that do not overlap: a goroutine takes a step only while every other
\* goroutine is between calls.  The Dialer is built with MaxConnPerHost = 1.
Alone(p) == \A q \in Procs \ {p} : pc[q] = "idle"

SeqInit == Init /\ maxConnPerHost = 1

SeqNext ==
    \/ \E p \in Procs, d \in Dests : Alone(p) /\ DialPool(p, d)
    \/ \E p \in Procs : Alone(p) /\ MaybeDialGetToken(p)
    \/ \E p \in Procs : Alone(p) /\ RawDialOk(p)
    \/ \E p \in Procs : Alone(p) /\ RawDialErr(p)
    \/ \E p \in Procs : Alone(p) /\ MaybeDialPutToken(p)
    \/ \E p \in Procs : Alone(p) /\ SelectEnter(p)
    \/ \E p \in Procs : Alone(p) /\ SelectTimeout(p)
    \/ \E p \in Procs : Alone(p) /\ SelectPoll(p)
    \/ \E p \in Procs : Alone(p) /\ PollTimer(p)
    \/ \E p \in Procs : Alone(p) /\ DeadlineWake(p)
    \/ \E p \in Procs : Alone(p) /\ DeadlineFire(p)
    \/ \E p \in Procs, c \in ConnIds : Alone(p) /\ CloseDefault(p, c)
    \/ \E p \in Procs : Alone(p) /\ ClosePutToken(p)
    \/ \E p \in Procs, r \in {"nil", "err"} : Alone(p) /\ CloseRaw(p, r)

SeqSpec == SeqInit /\ [][SeqNext]_vars

\* C8: calls made one after the other, maximum 1.  A Dial made while a
\* connection to its destination is open returns nothing but ErrTimeout, and
\* only after its deadline has fired; a Dial made when no connection to its
\* destination is open never waits and returns from its first maybeDial; and
\* between calls nothing is left over: tokens = 1 - open connections for every
\* pool, no Dial is parked on a handoff channel.
C8_SequentialScenario ==
    /\ \A p \in Procs :
          (result[p].kind # "none" /\ blk[p] # {}) =>
              (result[p].kind = "timeout" /\ waited[p] /\ fired[p] /\ nRaw[p] = 0)
    /\ \A p \in Procs :
          (dest[p] # NoDest /\ blk[p] = {}) =>
              /\ ~waited[p]
              /\ result[p].kind \in {"none", "new", "err"}
              /\ result[p].kind # "none" => nRaw[p] = 1
    /\ (\A p \in Procs : pc[p] = "idle") =>
          \A d \in conns :
              /\ tokens[d] = 1 - Cardinality(Held(d))
              /\ Parked(d) = {}
              /\ Cardinality(RawOpen(d)) = Cardinality(Held(d))

\* C8's case: the whole scenario has run.  c1 (connection 1) was open when q's
\* Dial was called and still open when it returned ErrTimeout; c1 was then
\* closed; the Dial of p after that returned connection 2 to the same
\* destination without waiting.
C8_Witness ==
    \E p \in Procs, q \in Procs :
        /\ result[q].kind = "timeout" /\ blk[q] = {1} /\ fired[q]
        /\ dest[q] = connPool[1]
        /\ rawCloses[1] = 1
        /\ result[p] = [kind |-> "new", conn |-> 2]
        /\ connPool[2] = connPool[1]
        /\ ~waited[p]
        /\ \A r \in Procs : pc[r] = "idle"

\* ------------------------------------------------------- fairness (C10)
\* Every goroutine that can run does run, the underlying dial returns, and the
\* deadline timer of a Dial in its wait loop fires.  A select that finds toch
\* ready again and again chooses its case in the end (the choice among ready
\* cases is uniformly random): strong fairness.  Nothing is assumed of the
\* polling timer, of the callers' decisions to call Dial or Close, or of the
\* steps of Close.
Fairness ==
    \A p \in Procs :
        /\ WF_vars(MaybeDialGetToken(p))
        /\ WF_vars(RawDialOk(p) \/ RawDialErr(p))
        /\ WF_vars(MaybeDialPutToken(p))
        /\ WF_vars(SelectEnter(p) \/ SelectTimeout(p) \/ SelectPoll(p))
        /\ SF_vars(SelectTimeout(p))
        /\ WF_vars(DeadlineWake(p) \/ DeadlineFire(p))

FairSpec == Init /\ [][Next]_vars /\ Fairness

\* C10: every Dial call eventually returns, with exactly one of a connection,
\* the error of the underlying dial or ErrTimeout, whatever the other callers
\* do, given that the underlying dial returns and the deadline timer fires.
C10_DialReturns ==
    \A p \in Procs :
        (pc[p] \in DialPcs) ~>
            (pc[p] \notin DialPcs /\ result[p].kind \in {"new", "reused", "err", "timeout"})

\* C10's case: a Dial that went round its wait loop has returned.
C10_Witness ==
    \E p \in Procs :
        /\ pc[p] = "idle"
        /\ waited[p]
        /\ result[p].kind \in {"new", "reused", "err", "timeout"}
        /\ \E q \in Procs \ {p} : pc[q] \in DialPcs
\* ------------------------------------------------------- token accounting
\* The Dial calls on key d that have taken a token in getToken and have not
\* yet wrapped a connection for it or put it back: the underlying dial is in
\* progress, or has failed and putToken is still to run.
TokenHolders(d) ==
    {p \in Procs : pc[p] \in {"rawDial", "dialErr"} /\ dest[p] = d /\ lastT[p] > 0}

\* How often the default branch of Close has run putToken for connection c:
\* once for each raw close that has returned or is about to be called.
Releases(c) ==
    rawCloses[c] + Cardinality({p \in Procs : pc[p] = "rawClose" /\ cur[p] = c})

\* The wrapped connections of key d whose token no Close has released.
Charged(d) == {c \in 1..nConns : connPool[c] = d /\ Releases(c) = 0}

\* C11: in every reachable state of a pool created with a positive maximum
\* (MaxConnPerHost > 0, or 0 for the default), 0 <= tokens <= maximum, when each
\* connection is closed at most once, by its holder.
C11_TokensWithinBounds ==
    maxConnPerHost >= 0 =>
        \A d \in conns : 0 <= tokens[d] /\ tokens[d] <= MaxOf(maxConnPerHost)

\* C11's case: a pool of maximum 1 whose counter has been down to 0 and is back
\* at the maximum after the close of its connection.
C11_Witness ==
    /\ maxConnPerHost = 1
    /\ \E d \in conns, c \in 1..nConns :
          /\ connPool[c] = d
          /\ rawCloses[c] = 1
          /\ tokens[d] = MaxOf(maxConnPerHost)

\* C13: token acquisition succeeds exactly when tokens > 0: whatever value the
\* counter has, negative ones included, maybeDial calls the underlying dial only
\* after getToken has decremented a positive counter, and without a token
\* it returns (nil, nil) with the counter unchanged.
C13_DialOnlyWithToken ==
    \A p \in Procs :
        /\ pc[p] = "rawDial" => (lastT[p] > 0 /\ delta[p] = -1)
        /\ (pc[p] \in {"loop", "select"}) => (lastT[p] <= 0 /\ delta[p] = 0)

\* C18: token conservation, for a pool created with a positive maximum and
\* connections closed at most once by their holder: tokens + the underlying
\* dials in progress that hold a token + the wrapped connections whose token no
\* default-branch Close has released = the maximum; and a handoff changes no
\* term of the sum.
C18_TokenConservation ==
    /\ [](maxConnPerHost >= 0 =>
            \A d \in conns :
                tokens[d] + Cardinality(TokenHolders(d)) + Cardinality(Charged(d))
                    = MaxOf(maxConnPerHost))
    /\ [][\A p \in Procs, c \in ConnIds :
            (CloseCalled(p, c) /\ holder'[c] # NoProc) =>
                \A d \in Dests :
                    /\ tokens'[d] = tokens[d]
                    /\ TokenHolders(d)' = TokenHolders(d)
                    /\ Charged(d)' = Charged(d)]_vars

\* C18's case: a pool of maximum 1 after a handoff: no token free, no dial in
\* progress, and the connection handed off still charged, held by its receiver.
C18_Witness ==
    /\ maxConnPerHost = 1
    /\ \E p \in Procs, q \in Procs, c \in 1..nConns :
          /\ closeRes[p] = [kind |-> "handoff", conn |-> c, to |-> q]
          /\ holder[c] = q
          /\ tokens[connPool[c]] = 0
          /\ TokenHolders(connPool[c]) = {}
          /\ Charged(connPool[c]) = {c}
\* C12: in the step in which the send of Close succeeds, exactly one Dial
\* parked on the connection's pool returns that same connection and becomes its
\* holder in place of the closer, every other goroutine stays where it is (the
\* other waiters stay parked), no raw connection is closed, no token count and
\* no connection's charge changes; and whenever a Dial returns a connection,
\* no other caller holds it: it is fresh, or its holder's Close handed it over
\* in the same step.
C12_HandoffFrame ==
    /\ [][\A p \in Procs, c \in ConnIds :
            (CloseCalled(p, c) /\ holder'[c] # NoProc) =>
                \E q \in Parked(connPool[c]) \ {p} :
                    /\ result'[q] = [kind |-> "reused", conn |-> c]
                    /\ pc'[q] = "idle"
                    /\ holder' = [holder EXCEPT ![c] = q]
                    /\ closeRes'[p] = [kind |-> "handoff", conn |-> c, to |-> q]
                    /\ \A r \in Procs \ {q} :
                          pc'[r] = pc[r] /\ result'[r] = result[r]
                    /\ rawCloses' = rawCloses
                    /\ tokens' = tokens
                    /\ \A d \in Dests : Charged(d)' = Charged(d)]_vars
    /\ [][\A q \in Procs, c \in ConnIds :
            (result'[q] # result[q] /\ result'[q].conn = c) =>
                /\ holder'[c] = q
                /\ \/ holder[c] = NoProc /\ result'[q].kind = "new" /\ rawCloses[c] = 0
                   \/ /\ holder[c] \notin {NoProc, q}
                      /\ result'[q].kind = "reused"
                      /\ closeRes'[holder[c]] = [kind |-> "handoff", conn |-> c, to |-> q]]_vars

\* C12's case: a Close handed its connection to one of two parked Dial calls
\* and the other is still parked.
C12_Witness ==
    \E p \in Procs, q \in Procs, r \in Procs, c \in 1..nConns :
        /\ r \notin {p, q}
        /\ closeRes[p] = [kind |-> "handoff", conn |-> c, to |-> q]
        /\ holder[c] = q
        /\ result[q] = [kind |-> "reused", conn |-> c]
        /\ pc[r] = "select" /\ dest[r] = connPool[c] /\ c \in blk[r]
\* The destination key that p's step works on, when p is the goroutine that
\* takes the step: the key of its Dial, or the key of the connection it closes.
StepKey(p) ==
    IF pc[p] \in DialPcs \/ pc'[p] \in DialPcs THEN dest'[p]
    ELSE connPool[cur'[p]]

\* C19: the token count of a key changes only in a step of a Dial to that key
\* or of a Close of a connection of that key; a connection that a Dial
\* receives by handoff belongs to the pool of that Dial's own key; and a Dial
\* starts waiting only when its own key's pool has no token, whatever the other
\* pools hold.
C19_DestinationsIndependent ==
    /\ [][\A d \in Dests :
            tokens'[d] # tokens[d] =>
                \E p \in Procs : pc'[p] # pc[p] /\ StepKey(p) = d]_vars
    /\ [][\A q \in Procs :
            (result'[q] # result[q] /\ result'[q].kind = "reused") =>
                connPool[result'[q].conn] = dest[q]]_vars
    /\ [][\A p \in Procs :
            (~waited[p] /\ waited'[p]) => tokens[dest[p]] = 0]_vars

\* C19's case: with a maximum of 1, the pool of one key is full and a Dial is
\* parked on it, while a Dial to the other key has returned a fresh connection
\* without waiting.
C19_Witness ==
    /\ maxConnPerHost = 1
    /\ \E a \in conns, b \in conns, p \in Procs, q \in Procs :
          /\ a # b
          /\ tokens[a] = 0 /\ Cardinality(Held(a)) = 1
          /\ pc[p] = "select" /\ dest[p] = a
          /\ dest[q] = b /\ result[q].kind = "new" /\ ~waited[q]
          /\ holder[result[q].conn] = q
\* The step in which p calls Dial for key d and d.pool returns the key's pool.
PoolLookup(p, d) == pc[p] = "idle" /\ pc'[p] = "maybeDial" /\ dest'[p] = d

\* C15: the Dialer's map never loses a key and MaxConnPerHost never changes; a
\* lookup of a key that has no pool creates it with tokens = MaxConnPerHost, or
\* 10 when that is 0, and creates no other; a lookup of a key that has a pool
\* changes no token count; every Dial in progress, and every connection, is on
\* a key that is in the map.
C15_OnePoolPerKey ==
    /\ [][/\ conns \subseteq conns'
          /\ maxConnPerHost' = maxConnPerHost
          /\ \A d \in conns' \ conns :
                /\ \E p \in Procs : PoolLookup(p, d)
                /\ tokens'[d] = IF maxConnPerHost = 0 THEN DefaultMaxConnsPerHost
                                ELSE maxConnPerHost
                /\ conns' = conns \cup {d}
          /\ \A p \in Procs, d \in Dests :
                PoolLookup(p, d) =>
                    /\ d \in conns'
                    /\ \A e \in conns : tokens'[e] = tokens[e]]_vars
    /\ [](/\ \A p \in Procs : pc[p] \in DialPcs => dest[p] \in conns
          /\ \A c \in 1..nConns : connPool[c] \in conns)

\* C15's case: MaxConnPerHost is 0 and two Dial calls for one key are in
\* their underlying dials at once, both on the one pool created with 10 tokens.
C15_Witness ==
    /\ maxConnPerHost = 0
    /\ \E d \in conns, p \in Procs, q \in Procs :
          /\ p # q
          /\ pc[p] = "rawDial" /\ dest[p] = d
          /\ pc[q] = "rawDial" /\ dest[q] = d
          /\ tokens[d] = 8
\* What the polling retry needs: the 10ms timer of line 93 fires, a goroutine
\* that can run does run (the select is evaluated, getToken is called), and the
\* underlying dial returns.  Nothing is assumed of the deadline timer, of the
\* callers' decisions to call Dial or Close, or of the steps of Close.
PollFairness ==
    \A p \in Procs :
        /\ WF_vars(PollTimer(p))
        /\ WF_vars(SelectEnter(p) \/ SelectPoll(p))
        /\ WF_vars(MaybeDialGetToken(p))
        /\ WF_vars(RawDialOk(p) \/ RawDialErr(p))
        /\ WF_vars(MaybeDialPutToken(p))

PollFairSpec == Init /\ [][Next]_vars /\ PollFairness

\* Dial call w is in its wait loop: it has failed to get a token at least
\* once and is parked, about to select, or in the getToken of a retry.
InWaitLoop(w) == waited[w] /\ pc[w] \in {"loop", "select", "maybeDial"}

\* C14: a Dial in its wait loop whose pool has a free token (a Close released
\* it when nobody was receiving) and whose deadline has not fired eventually
\* returns a fresh connection from a polling retry of maybeDial, unless its
\* deadline fires first, another Dial takes the token, the underlying dial
\* fails, or a later Close hands it a connection.
C14_NoMissedWakeup ==
    \A w \in Procs :
        (InWaitLoop(w) /\ ~fired[w] /\ tokens[dest[w]] > 0) ~>
            \/ pc[w] = "idle" /\ result[w].kind = "new" /\ nRaw[w] = 1
            \/ fired[w]
            \/ InWaitLoop(w) /\ tokens[dest[w]] <= 0
            \/ pc[w] = "idle" /\ result[w].kind \in {"err", "reused"}

\* C14's case: a Dial that found no token and waited has returned a fresh
\* connection, its deadline not fired, after a Close of a connection of its
\* pool took the default branch.
C14_Witness ==
    \E w \in Procs, p \in Procs, c \in 1..nConns :
        /\ p # w
        /\ pc[w] = "idle" /\ result[w].kind = "new"
        /\ waited[w] /\ ~fired[w] /\ firstT[w] = 0
        /\ closeRes[p].kind \in {"nil", "err"} /\ closeRes[p].conn = c
        /\ connPool[c] = dest[w]
\* ------------------------------------------ callers that close twice
\* A caller's bug: p, whose Close of c took the default branch and returned,
\* calls c.Close() again.  Lines 162-164: a Dial is parked on c.pool.connCh,
\* the send succeeds and that Dial returns c, a connection already closed.
CloseAgainSend(p, c, q) ==
    /\ pc[p] = "idle"
    /\ c \in 1..nConns /\ holder[c] = NoProc
    /\ closeRes[p].conn = c /\ closeRes[p].kind \in {"nil", "err"}
    /\ rawCloses[c] < MaxCloses
    /\ q \in Receivers(connPool[c])
    /\ holder' = [holder EXCEPT ![c] = q]
    /\ pc' = [pc EXCEPT ![q] = "idle"]
    /\ result' = [result EXCEPT ![q] = [kind |-> "reused", conn |-> c]]
    /\ cur' = [cur EXCEPT ![p] = c]
    /\ closeRes' = [closeRes EXCEPT ![p] = [kind |-> "handoff", conn |-> c, to |-> q]]
    /\ UNCHANGED <<maxConnPerHost, lockVars, conns, tokens, nConns, connPool, rawCloses,
                   nDials, dest, dialHist, blk>>

\* The same second call when nobody is parked on connCh: the select takes its
\* default (line 165) and Close goes on to putToken and to the raw close.
CloseAgainDefault(p, c) ==
    /\ pc[p] = "idle"
    /\ c \in 1..nConns /\ holder[c] = NoProc
    /\ closeRes[p].conn = c /\ closeRes[p].kind \in {"nil", "err"}
    /\ rawCloses[c] < MaxCloses
    /\ Receivers(connPool[c]) = {}
    /\ pc' = [pc EXCEPT ![p] = "closeDefault"]
    /\ cur' = [cur EXCEPT ![p] = c]
    /\ closeRes' = [closeRes EXCEPT ![p] = NoClose]
    /\ UNCHANGED <<maxConnPerHost, lockVars, conns, tokens, connVars, nDials, dest,
                   dialHist, blk, result>>

MisuseNext ==
    \/ Next
    \/ \E p \in Procs, c \in ConnIds, q \in Procs : CloseAgainSend(p, c, q)
    \/ \E p \in Procs, c \in ConnIds : CloseAgainDefault(p, c)

MisuseSpec == Init /\ [][MisuseNext]_vars

\* The Close calls on connections of key d that have taken the default branch
\* and released a token, over the connections 1..n.
RECURSIVE ReleasesUpTo(_, _)
ReleasesUpTo(d, n) ==
    IF n = 0 THEN 0
    ELSE ReleasesUpTo(d, n - 1) + (IF connPool[n] = d THEN Releases(n) ELSE 0)

\* The connections that Dial calls for key d have opened.
Opened(d) == {c \in 1..nConns : connPool[c] = d}

\* C17: putToken adds one to tokens whatever its value, also in a second Close
\* of a connection, so that with callers that close twice tokens is the
\* maximum, minus the dials in progress and the connections opened, plus every
\* Close that took the default branch: nothing bounds it by the maximum.
C17_ReleaseUnbounded ==
    /\ [][\A p \in Procs :
            (pc[p] = "closeDefault" /\ pc'[p] = "rawClose") =>
                LET d == connPool[cur[p]]
                IN tokens'[d] = tokens[d] + 1]_vars
    /\ [](maxConnPerHost >= 0 =>
            \A d \in conns :
                tokens[d] = MaxOf(maxConnPerHost) - Cardinality(TokenHolders(d))
                                - Cardinality(Opened(d)) + ReleasesUpTo(d, nConns))

\* C17's case: with a maximum of 1, a connection was closed twice by
\* default-branch Close calls, a later Dial found tokens = 2 and two
\* connections of the one key are open and held at once.
C17_Witness ==
    /\ maxConnPerHost = 1
    /\ \E d \in conns, c \in 1..nConns, p \in Procs :
          /\ connPool[c] = d /\ rawCloses[c] = 2
          /\ dest[p] = d /\ firstT[p] = 2 /\ result[p].kind = "new"
          /\ Cardinality(Held(d)) = 2
          /\ Cardinality(RawOpen(d)) = 2
\* ------------------------------------------- the two mutexes, step by step
\* The same program with every Lock() a step of its own: a goroutine waits at
\* Lock() until the mutex is free, and the deferred Unlock() ends the step that
\* runs the critical section's body.
\* Dial is called (line 76) and reaches d.Lock() in d.pool (line 52).
LockDial(p, d) ==
    /\ pc[p] = "idle"
    /\ nDials < MaxDials
    /\ nDials' = nDials + 1
    /\ pc' = [pc EXCEPT ![p] = "poolLock"]
    /\ dest' = [dest EXCEPT ![p] = d]
    /\ waited' = [waited EXCEPT ![p] = FALSE]
    /\ fired' = [fired EXCEPT ![p] = FALSE]
    /\ firstT' = [firstT EXCEPT ![p] = 0]
    /\ lastT' = [lastT EXCEPT ![p] = 0]
    /\ delta' = [delta EXCEPT ![p] = 0]
    /\ nRaw' = [nRaw EXCEPT ![p] = 0]
    /\ blk' = [blk EXCEPT ![p] = Held(d)]
    /\ result' = [result EXCEPT ![p] = NoResult]
    /\ UNCHANGED <<maxConnPerHost, lockVars, conns, tokens, connVars, closeHist>>

\* Line 52: d.Lock() returns once the Dialer's mutex is free.
LockPool(p) ==
    /\ pc[p] = "poolLock"
    /\ dLock = NoProc
    /\ dLock' = p
    /\ pc' = [pc EXCEPT ![p] = "poolBody"]
    /\ UNCHANGED <<maxConnPerHost, pLock, conns, tokens, connVars, nDials, dest,
                   dialHist, blk, result, closeHist>>

\* Lines 53-73: lookup-or-create, and the deferred d.Unlock().
LockPoolBody(p) ==
    /\ pc[p] = "poolBody"
    /\ LET d == dest[p]
       IN /\ conns' = conns \cup {d}
          /\ tokens' = IF d \in conns THEN tokens
                       ELSE [tokens EXCEPT ![d] = MaxOf(maxConnPerHost)]
    /\ dLock' = NoProc
    /\ pc' = [pc EXCEPT ![p] = "maybeDial"]
    /\ UNCHANGED <<maxConnPerHost, pLock, connVars, nDials, dest, dialHist,
                   blk, result, closeHist>>

\* Line 137: p.Lock() in getToken returns once the pool's mutex is free.
LockGetToken(p) ==
    /\ pc[p] = "maybeDial"
    /\ pLock[dest[p]] = NoProc
    /\ pLock' = [pLock EXCEPT ![dest[p]] = p]
    /\ pc' = [pc EXCEPT ![p] = "getToken"]
    /\ UNCHANGED <<maxConnPerHost, dLock, conns, tokens, connVars, nDials,
                   dest, dialHist, blk, result, closeHist>>

\* Mutant: a maybeDial that keeps the pool's mutex while it dials.
LockGetTokenBody_HoldsLock(p) ==
    /\ pc[p] = "getToken"
    /\ LET d == dest[p]
           t == getTokenRet(tokens[d])
       IN /\ tokens' = [tokens EXCEPT ![d] = getTokenNew(tokens[d])]
          /\ delta' = [delta EXCEPT ![p] = @ + getTokenNew(tokens[d]) - tokens[d]]
          /\ lastT' = [lastT EXCEPT ![p] = tokens[d]]
          /\ firstT' = IF waited[p] THEN firstT
                       ELSE [firstT EXCEPT ![p] = tokens[d]]
          /\ IF GotToken(t)
             THEN /\ pc' = [pc EXCEPT ![p] = "rawDial"]
                  /\ nRaw' = [nRaw EXCEPT ![p] = @ + 1]
                  /\ UNCHANGED <<waited, pLock>>
             ELSE /\ pc' = [pc EXCEPT ![p] = "loop"]
                  /\ waited' = [waited EXCEPT ![p] = TRUE]
                  /\ pLock' = [pLock EXCEPT ![d] = NoProc]
                  /\ UNCHANGED nRaw
    /\ UNCHANGED <<maxConnPerHost, dLock, conns, connVars, nDials, dest,
                   fired, blk, result, closeHist>>

\* Lines 138-144: the body of getToken with its deferred p.Unlock(), and the
\* test of line 119.
LockGetTokenBody(p) ==
    /\ pc[p] = "getToken"
    /\ LET d == dest[p]
           t == getTokenRet(tokens[d])
       IN /\ tokens' = [tokens EXCEPT ![d] = getTokenNew(tokens[d])]
          /\ delta' = [delta EXCEPT ![p] = @ + getTokenNew(tokens[d]) - tokens[d]]
          /\ lastT' = [lastT EXCEPT ![p] = tokens[d]]
          /\ firstT' = IF waited[p] THEN firstT
                       ELSE [firstT EXCEPT ![p] = tokens[d]]
          /\ pLock' = [pLock EXCEPT ![d] = NoProc]
          /\ IF GotToken(t)
             THEN /\ pc' = [pc EXCEPT ![p] = "rawDial"]
                  /\ nRaw' = [nRaw EXCEPT ![p] = @ + 1]
                  /\ UNCHANGED waited
             ELSE /\ pc' = [pc EXCEPT ![p] = "loop"]
                  /\ waited' = [waited EXCEPT ![p] = TRUE]
                  /\ UNCHANGED nRaw
    /\ UNCHANGED <<maxConnPerHost, dLock, conns, connVars, nDials, dest,
                   fired, blk, result, closeHist>>

\* Line 148, called from line 122: p.Lock() in putToken.
LockPutToken(p) ==
    /\ pc[p] = "dialErr"
    /\ pLock[dest[p]] = NoProc
    /\ pLock' = [pLock EXCEPT ![dest[p]] = p]
    /\ pc' = [pc EXCEPT ![p] = "putToken"]
    /\ UNCHANGED <<maxConnPerHost, dLock, conns, tokens, connVars, nDials,
                   dest, dialHist, blk, result, closeHist>>

\* Lines 149-153 and 123: the increment, p.Unlock(), and the error returned.
LockPutTokenBody(p) ==
    /\ pc[p] = "putToken"
    /\ LET d == dest[p]
       IN /\ tokens' = [tokens EXCEPT ![d] = putTokenNew(tokens[d])]
          /\ delta' = [delta EXCEPT ![p] = @ + putTokenNew(tokens[d]) - tokens[d]]
          /\ pLock' = [pLock EXCEPT ![d] = NoProc]
    /\ result' = [result EXCEPT ![p] = [kind |-> "err", conn |-> NoConn]]
    /\ pc' = [pc EXCEPT ![p] = "idle"]
    /\ UNCHANGED <<maxConnPerHost, dLock, conns, connVars, nDials, dest,
                   waited, fired, firstT, lastT, nRaw, blk, closeHist>>

\* Line 148, called from line 166: p.Lock() in the putToken of Close.
LockClosePut(p) ==
    /\ pc[p] = "closeDefault"
    /\ pLock[connPool[cur[p]]] = NoProc
    /\ pLock' = [pLock EXCEPT ![connPool[cur[p]]] = p]
    /\ pc' = [pc EXCEPT ![p] = "closePut"]
    /\ UNCHANGED <<maxConnPerHost, dLock, conns, tokens, connVars, nDials,
                   dest, dialHist, blk, result, closeHist>>

\* Lines 149-153: the increment and p.Unlock(); Close goes on to line 167.
LockClosePutBody(p) ==
    /\ pc[p] = "closePut"
    /\ LET d == connPool[cur[p]]
       IN /\ tokens' = [tokens EXCEPT ![d] = putTokenNew(tokens[d])]
          /\ pLock' = [pLock EXCEPT ![d] = NoProc]
    /\ pc' = [pc EXCEPT ![p] = "rawClose"]
    /\ UNCHANGED <<maxConnPerHost, dLock, conns, connVars, nDials, dest,
                   dialHist, blk, result, closeHist>>

LockNext ==
    \/ \E p \in Procs, d \in Dests : LockDial(p, d)
    \/ \E p \in Procs : LockPool(p)
    \/ \E p \in Procs : LockPoolBody(p)
    \/ \E p \in Procs : LockGetToken(p)
    \/ \E p \in Procs : LockGetTokenBody(p)
    \/ \E p \in Procs : RawDialOk(p)
    \/ \E p \in Procs : RawDialErr(p)
    \/ \E p \in Procs : LockPutToken(p)
    \/ \E p \in Procs : LockPutTokenBody(p)
    \/ \E p \in Procs : SelectEnter(p)
    \/ \E p \in Procs : SelectTimeout(p)
    \/ \E p \in Procs : SelectPoll(p)
    \/ \E p \in Procs : PollTimer(p)
    \/ \E p \in Procs : DeadlineWake(p)
    \/ \E p \in Procs : DeadlineFire(p)
    \/ \E p \in Procs, c \in ConnIds, q \in Procs : CloseSend(p, c, q)
    \/ \E p \in Procs, c \in ConnIds : CloseDefault(p, c)
    \/ \E p \in Procs : LockClosePut(p)
    \/ \E p \in Procs : LockClosePutBody(p)
    \/ \E p \in Procs, r \in {"nil", "err"} : CloseRaw(p, r)

LockSpec == Init /\ [][LockNext]_vars

\* The mutexes goroutine p holds.
LocksOf(p) == (IF dLock = p THEN {"d"} ELSE {}) \cup {d \in Dests : pLock[d] = p}

\* Where a goroutine blocks: in the underlying dial, in the select of the wait
\* loop or between two rounds of it, and in the raw close.
BlockingPcs == {"rawDial", "loop", "select", "rawClose"}

\* Goroutine p is at a Lock() call, and the mutex it asks for.
AtLock(p) == pc[p] \in {"poolLock", "maybeDial", "dialErr", "closeDefault"}
WantedFree(p) ==
    IF pc[p] = "poolLock" THEN dLock = NoProc
    ELSE IF pc[p] \in {"maybeDial", "dialErr"} THEN pLock[dest[p]] = NoProc
    ELSE pLock[connPool[cur[p]]] = NoProc
\* C16: a goroutine holds the Dialer's mutex only in the body of pool() and a
\* pool's mutex only in the body of getToken or putToken on that pool; a
\* goroutine that is in the underlying dial, in the wait loop, in the raw
\* close or outside any call holds no mutex; so a goroutine at a Lock() call
\* finds the mutex free whenever every other goroutine is blocked, idle or
\* itself at a Lock() call.
C16_NoLockAcrossBlocking ==
    /\ \A p \in Procs :
          /\ dLock = p => pc[p] = "poolBody"
          /\ \A d \in Dests :
                pLock[d] = p =>
                    \/ pc[p] \in {"getToken", "putToken"} /\ dest[p] = d
                    \/ pc[p] = "closePut" /\ connPool[cur[p]] = d
    /\ \A p \in Procs :
          pc[p] \in BlockingPcs \cup {"idle"} => LocksOf(p) = {}
    /\ \A p \in Procs :
          (/\ AtLock(p)
           /\ \A q \in Procs \ {p} :
                 pc[q] \in BlockingPcs \cup {"idle"} \/ AtLock(q)) => WantedFree(p)

\* C16's case: one Dial is in the underlying dial and another is parked in the
\* wait loop of the same key, while a third holds that pool's mutex in
\* getToken.
C16_Witness ==
    \E p \in Procs, q \in Procs, r \in Procs :
        /\ pc[q] = "rawDial" /\ pc[r] = "select" /\ pc[p] = "getToken"
        /\ dest[q] = dest[p] /\ dest[r] = dest[p]
        /\ pLock[dest[p]] = p
====
